---- MODULE Spec2Model ----
(***************************************************************************)
(* Model of the splinter admin service (libsplinter/src/admin/mod.rs):     *)
(* one AdminService instance on node SelfNode, the lifecycle operations of *)
(* its Service implementation, and handle_message / propose_circuit run by *)
(* concurrent caller threads against the mutex-guarded AdminServiceState.  *)
(***************************************************************************)
EXTENDS Integers, Sequences, FiniteSets, TLC

VARIABLES
    network_sender,   \* AdminService.network_sender: "None" or "Some"
    destroyed,        \* the service has been consumed by destroy
    open_proposals,   \* AdminServiceState.open_proposals: circuit_id -> CircuitProposal
    peers,            \* node ids the PeerConnector has connected (network.peer_ids)
    sent,             \* messages handed to the ServiceNetworkSender: <<recipient, bytes>>
    lock,             \* holder of the admin_service_state mutex, or NoThread
    poisoned,         \* the mutex is poisoned
    th,               \* per caller thread: position and locals of its current call
    ncalls,           \* number of handle_message / propose_circuit calls begun
    budget,           \* number of such calls a run may begin
    registry,         \* service ids bound in the ServiceNetworkRegistry
    ctl,              \* the lifecycle call (start, stop, destroy) being returned from
    peer_node,        \* the admin service on node PeerNode: its open_proposals, and for
                      \* each entry the position in sent of the envelope it came from
    to_hex_calls      \* calls of to_hex: the bytes given and the string returned

vars == <<network_sender, destroyed, open_proposals, peers, sent, lock, poisoned, th, ncalls,
          budget, registry, ctl, peer_node, to_hex_calls>>

(* What the steps of handle_message and propose_circuit on this node leave alone. *)
callframe == <<budget, registry, ctl, peer_node, to_hex_calls>>

----------------------------------------------------------------------------
(* Bounds *)

MaxCalls == 3
MaxPanicCalls == 2
MaxNetCalls == 2
MaxLiveCalls == 2
MaxDigestLen == 2

Threads == {"t1", "t2"}
NoThread == "none"

(* This node, and the nodes a circuit can name. *)
SelfNode == "A"
PeerNode == "B"
CircuitIds == {"c1", "c2"}

EndpointOf(n) == CASE n = "A" -> "a:1" [] n = "B" -> "b:1" [] OTHER -> "c:1"

SplinterNode(n) == [node_id |-> n, endpoint |-> EndpointOf(n)]

MemberLists ==
    { <<SplinterNode("A")>>,
      <<SplinterNode("B"), SplinterNode("A"), SplinterNode("C")>> }

(* Circuit: only the fields this module's code reads (circuit_id, members). *)
Circuits == [circuit_id : CircuitIds, members : MemberLists]

(* Circuit::new(): the protobuf default value. *)
DefaultCircuit == [circuit_id |-> "", members |-> <<>>]

----------------------------------------------------------------------------
(* Wire codec: bytes are sequences of numbers 0..255. *)

StrBytes(s) ==
    CASE s = "c1"  -> <<99, 49>>
      [] s = "c2"  -> <<99, 50>>
      [] s = "A"   -> <<65>>
      [] s = "B"   -> <<66>>
      [] s = "C"   -> <<67>>
      [] s = "a:1" -> <<97, 58, 49>>
      [] s = "b:1" -> <<98, 58, 49>>
      [] s = "c:1" -> <<99, 58, 49>>
      [] OTHER     -> <<>>

LenDelim(b) == <<Len(b)>> \o b

RECURSIVE ConcatAll(_)
ConcatAll(ss) == IF ss = <<>> THEN <<>> ELSE Head(ss) \o ConcatAll(Tail(ss))

NodeBytes(n) == LenDelim(StrBytes(n.node_id)) \o LenDelim(StrBytes(n.endpoint))

(* Circuit::write_to_bytes *)
CircuitBytes(c) ==
    LenDelim(StrBytes(c.circuit_id))
        \o <<Len(c.members)>>
        \o ConcatAll([i \in 1..Len(c.members) |-> NodeBytes(c.members[i])])

CIRCUIT_CREATE_REQUEST == "CIRCUIT_CREATE_REQUEST"
OTHER_ACTION == "OTHER_ACTION"
Actions == {CIRCUIT_CREATE_REQUEST, OTHER_ACTION}

ActionCode(a) == IF a = CIRCUIT_CREATE_REQUEST THEN <<1>> ELSE <<2>>

(* CircuitManagementPayload: action + circuit_create_request.circuit *)
CreateEnvelope(c) == [action |-> CIRCUIT_CREATE_REQUEST, circuit |-> c]
OtherEnvelope == [action |-> OTHER_ACTION, circuit |-> DefaultCircuit]
Envelopes == {CreateEnvelope(c) : c \in Circuits} \cup {OtherEnvelope}

(* CircuitManagementPayload::write_to_bytes *)
EnvelopeBytes(e) ==
    ActionCode(e.action)
        \o (IF e.action = CIRCUIT_CREATE_REQUEST THEN CircuitBytes(e.circuit) ELSE <<>>)

(* protobuf::parse_from_bytes: the envelope these bytes encode, if any *)
Decodable(b) == \E e \in Envelopes : EnvelopeBytes(e) = b
parse_from_bytes(b) == CHOOSE e \in Envelopes : EnvelopeBytes(e) = b

(* Byte strings that are no envelope. *)
Garbage == { <<1, 7, 99>> }

(* The byte strings delivered to handle_message. *)
Inbound == {EnvelopeBytes(e) : e \in Envelopes} \cup Garbage

----------------------------------------------------------------------------
(* Hashing *)

HexDigits == <<"0", "1", "2", "3", "4", "5", "6", "7", "8", "9", "a", "b", "c", "d", "e", "f">>

(* write!(buf, "{:0x}", b): lower-case hex with no minimum width *)
HexOfByte(b) ==
    IF b < 16 THEN <<HexDigits[b + 1]>>
    ELSE <<HexDigits[(b \div 16) + 1], HexDigits[(b % 16) + 1]>>

RECURSIVE to_hex(_)
to_hex(bytes) ==
    IF bytes = <<>> THEN <<>> ELSE HexOfByte(Head(bytes)) \o to_hex(Tail(bytes))

(* Byte values on both sides of the one-digit / two-digit boundary of hex. *)
HexBytes == {0, 1, 15, 16, 17, 255}

(* The digests handed to to_hex. *)
ByteSeqs == UNION {[1..n -> HexBytes] : n \in 0..MaxDigestLen}

HexCallers == {"x", "y"}

NewHexCall(bytes) == [bytes |-> bytes, buf |-> <<>>, returned |-> FALSE]

NoHexCalls == [k \in HexCallers |-> NewHexCall(<<>>)]

RECURSIVE WeightedSum(_, _)
WeightedSum(bytes, k) ==
    IF bytes = <<>> THEN 0 ELSE k * Head(bytes) + WeightedSum(Tail(bytes), k + 1)

RECURSIVE PlainSum(_)
PlainSum(bytes) == IF bytes = <<>> THEN 0 ELSE Head(bytes) + PlainSum(Tail(bytes))

(* hash(MessageDigest::sha256(), bytes): a two-byte stand-in digest *)
Digest(bytes) == <<PlainSum(bytes) % 256, WeightedSum(bytes, 1) % 256>>

sha256(circuit) == to_hex(Digest(CircuitBytes(circuit)))

(* sha256 of every circuit of the model, tabulated once *)
Sha256Of == [circuit \in Circuits \cup {DefaultCircuit} |-> sha256(circuit)] @@ <<>>

admin_service_id(node_id) == <<"admin::", node_id>>

----------------------------------------------------------------------------
(* AdminServiceState *)

CREATE == "CREATE"

(* a proposal whose hash is taken over an empty circuit *)
NewProposal_HashOfDefault(circuit) ==
    [ proposal_type    |-> CREATE,
      circuit_id       |-> circuit.circuit_id,
      circuit_hash     |-> to_hex(Digest(CircuitBytes(DefaultCircuit))),
      circuit_proposal |-> circuit ]

(* CircuitProposal built at mod.rs 126-130 and 173-177 *)
NewProposal(circuit) ==
    [ proposal_type    |-> CREATE,
      circuit_id       |-> circuit.circuit_id,
      circuit_hash     |-> Sha256Of[circuit],
      circuit_proposal |-> circuit ]

EmptyMap == [k \in {} |-> NewProposal(DefaultCircuit)]

(* HashMap::insert *)
(* an insert that leaves only the inserted entry in the map *)
MapInsert_Replace(map, key, value) == [k \in {key} |-> value]

MapInsert(map, key, value) ==
    [k \in DOMAIN map \cup {key} |-> IF k = key THEN value ELSE map[k]]

(* an add_proposal that keeps the entry the map already holds for the id *)
add_proposal_IfAbsent(map, circuit_proposal) ==
    IF circuit_proposal.circuit_id \in DOMAIN map
    THEN map
    ELSE MapInsert(map, circuit_proposal.circuit_id, circuit_proposal)

add_proposal(map, circuit_proposal) ==
    MapInsert(map, circuit_proposal.circuit_id, circuit_proposal)

(* has_proposal that never finds the key *)
has_proposal_Never(map, circuit_id) == FALSE

has_proposal(map, circuit_id) == circuit_id \in DOMAIN map

(* a started-check that never reports an absent sender *)
is_none_Never(sender) == FALSE

(* Option::is_none on network_sender *)
is_none(sender) == sender = "None"

(* a lock that excludes nobody *)
CanLock_NoExclusion(t) == TRUE

(* Mutex::lock blocks until no thread holds the mutex *)
CanLock(t) == lock = NoThread

(* a guard that is leaked, so its mutex stays locked *)
drop_guard_Leaked(t) == lock

(* The MutexGuard of thread t goes out of scope: the mutex is unlocked if t holds it. *)
drop_guard(t) == IF lock = t THEN NoThread ELSE lock

(* a poisoned lock whose guard is taken anyway *)
LockPoisoned_Bypassed == FALSE

(* Mutex::lock returns Err(PoisonError) once a holder has panicked *)
LockPoisoned == poisoned

(* a member test that does not exclude this node *)
IsRemote_All(node) == TRUE

(* self.node_id != node.get_node_id() *)
IsRemote(node) == SelfNode # node.node_id

(* a match that sends every action to the CREATE arm *)
Dispatch_AllCreate(action) == "create"

(* match envelope.action *)
Dispatch(action) == IF action = CIRCUIT_CREATE_REQUEST THEN "create" ELSE "unknown"

(* a parse failure mapped to another ServiceError variant *)
DecodeError_Wrong == "UnableToHandleMessage"

(* map_err of a parse failure *)
DecodeError == "InvalidMessageFormat"

(* a connect result that is dropped instead of propagated *)
ConnectFailed_Ignored(ok) == FALSE

(* connect_peer(..).map_err(..)? : a failed connect leaves propose_circuit *)
ConnectFailed(ok) == ~ok

(* a send result that is dropped instead of propagated *)
SendFailed_Ignored(ok) == FALSE

(* send(..)? : a failed send leaves propose_circuit *)
SendFailed(ok) == ~ok

----------------------------------------------------------------------------
(* Caller threads *)

(* Locals of a thread outside any call / at the start of a call. *)
NewCall(op, started) ==
    [ pc              |-> "idle",
      op              |-> op,
      started         |-> started,     \* network_sender was Some when the call began
      bytes           |-> <<>>,        \* message_bytes / envelope_bytes
      circuit         |-> DefaultCircuit,  \* proposed_circuit
      i               |-> 1,           \* position of the running for loop
      member_node_ids |-> <<>>,
      connects        |-> <<>>,        \* connect_peer calls of this call, with outcome
      sends           |-> <<>>,        \* send calls of this call, with outcome
      pre             |-> EmptyMap,    \* open_proposals when the call began / took the lock
      found           |-> FALSE,       \* what has_proposal returned
      inserted        |-> FALSE,       \* this call ran add_proposal
      result          |-> "none" ]

Return(locals, res) == [locals EXCEPT !.pc = "idle", !.result = res]

(* The admin service of node PeerNode before it has received anything. *)
NoPeerProposals == [open_proposals |-> EmptyMap, source |-> [id \in {} |-> 0]]

(* No lifecycle call in progress / the record of one that is returning. *)
NoLifecycleCall == [pc |-> "idle", op |-> "none", result |-> "none"]
LifecycleCall(op, res) == [pc |-> "returning", op |-> op, result |-> res]

(* No &self call is in progress and no &mut self call is returning. *)
Quiescent == ctl.pc = "idle" /\ \A t \in Threads : th[t].pc = "idle"

Init ==
    /\ network_sender = "None"
    /\ destroyed = FALSE
    /\ open_proposals = EmptyMap
    /\ peers = {}
    /\ sent = <<>>
    /\ lock = NoThread
    /\ poisoned = FALSE
    /\ th = [t \in Threads |-> NewCall("none", FALSE)]
    /\ ncalls = 0
    /\ budget = MaxCalls
    /\ registry = {}
    /\ ctl = NoLifecycleCall
    /\ peer_node = NoPeerProposals
    /\ to_hex_calls = NoHexCalls

----------------------------------------------------------------------------
(* Service lifecycle: start, stop and destroy take the service exclusively  *)
(* (&mut self / self), so they run only while no &self call is in progress. *)

(* start that stores a sender although the registry rejected the binding *)
start_StoresOnFailure(ok) ==
    /\ ~destroyed /\ Quiescent
    /\ registry' = IF ok THEN registry \cup {admin_service_id(SelfNode)} ELSE registry
    /\ network_sender' = "Some"
    /\ ctl' = LifecycleCall("start", IF ok THEN "Ok" ELSE "StartFailure")
    /\ UNCHANGED <<destroyed, open_proposals, peers, sent, lock, poisoned, th, ncalls,
                   budget, peer_node, to_hex_calls>>

start(ok) ==
    /\ ~destroyed /\ Quiescent
    /\ IF ok
       THEN /\ registry' = registry \cup {admin_service_id(SelfNode)}
            /\ network_sender' = "Some"
            /\ ctl' = LifecycleCall("start", "Ok")
       ELSE /\ ctl' = LifecycleCall("start", "StartFailure")
            /\ UNCHANGED <<registry, network_sender>>
    /\ UNCHANGED <<destroyed, open_proposals, peers, sent, lock, poisoned, th, ncalls,
                   budget, peer_node, to_hex_calls>>

(* a stop that also empties the open-proposals map *)
stop_DropsProposals(ok) ==
    /\ ~destroyed /\ Quiescent
    /\ open_proposals' = EmptyMap
    /\ IF ok
       THEN /\ registry' = registry \ {admin_service_id(SelfNode)}
            /\ network_sender' = "None"
            /\ ctl' = LifecycleCall("stop", "Ok")
       ELSE /\ ctl' = LifecycleCall("stop", "StopFailure")
            /\ UNCHANGED <<registry, network_sender>>
    /\ UNCHANGED <<destroyed, peers, sent, lock, poisoned, th, ncalls, budget, peer_node, to_hex_calls>>

(* a stop that drops the sender although disconnect failed *)
stop_ClearsOnFailure(ok) ==
    /\ ~destroyed /\ Quiescent
    /\ network_sender' = "None"
    /\ IF ok
       THEN /\ registry' = registry \ {admin_service_id(SelfNode)}
            /\ ctl' = LifecycleCall("stop", "Ok")
       ELSE /\ ctl' = LifecycleCall("stop", "StopFailure")
            /\ UNCHANGED registry
    /\ UNCHANGED <<destroyed, open_proposals, peers, sent, lock, poisoned, th, ncalls,
                   budget, peer_node, to_hex_calls>>

stop(ok) ==
    /\ ~destroyed /\ Quiescent
    /\ IF ok
       THEN /\ registry' = registry \ {admin_service_id(SelfNode)}
            /\ network_sender' = "None"
            /\ ctl' = LifecycleCall("stop", "Ok")
       ELSE /\ ctl' = LifecycleCall("stop", "StopFailure")
            /\ UNCHANGED <<registry, network_sender>>
    /\ UNCHANGED <<destroyed, open_proposals, peers, sent, lock, poisoned, th, ncalls,
                   budget, peer_node, to_hex_calls>>

destroy ==
    /\ ~destroyed /\ Quiescent
    /\ destroyed' = TRUE
    /\ ctl' = LifecycleCall("destroy", "Ok")
    /\ UNCHANGED <<network_sender, open_proposals, peers, sent, lock, poisoned, th, ncalls,
                   budget, registry, peer_node, to_hex_calls>>

(* start or stop returns to its caller, ending the exclusive borrow. *)
LifecycleReturn ==
    /\ ~destroyed /\ ctl.pc = "returning"
    /\ ctl' = NoLifecycleCall
    /\ UNCHANGED <<destroyed, network_sender, open_proposals, peers, sent, lock, poisoned, th,
                   ncalls, budget, registry, peer_node, to_hex_calls>>

----------------------------------------------------------------------------
(* handle_message *)

handle_message(t, message_bytes) ==
    /\ ~destroyed /\ ctl.pc = "idle" /\ th[t].pc = "idle" /\ ncalls < budget
    /\ ncalls' = ncalls + 1
    /\ LET call == [NewCall("handle_message", network_sender = "Some")
                        EXCEPT !.bytes = message_bytes, !.pre = open_proposals]
       IN  th' = [th EXCEPT ![t] =
                IF is_none(network_sender) THEN Return(call, "NotStarted")
                ELSE IF ~Decodable(message_bytes) THEN Return(call, DecodeError)
                ELSE LET envelope == parse_from_bytes(message_bytes)
                     IN  IF Dispatch(envelope.action) = "create"
                         THEN [call EXCEPT !.pc = "hm_lock", !.circuit = envelope.circuit]
                         ELSE Return(call, "Ok")]
    /\ UNCHANGED callframe
    /\ UNCHANGED <<network_sender, destroyed, open_proposals, peers, sent, lock, poisoned>>

HM_Lock(t) ==
    /\ th[t].pc = "hm_lock" /\ CanLock(t)
    /\ IF LockPoisoned
       THEN /\ th' = [th EXCEPT ![t] = Return(@, "PoisonedLock")]
            /\ UNCHANGED lock
       ELSE /\ th' = [th EXCEPT ![t] = [@ EXCEPT !.pc = "hm_check", !.pre = open_proposals]]
            /\ lock' = t
    /\ UNCHANGED callframe
    /\ UNCHANGED <<network_sender, destroyed, open_proposals, peers, sent, poisoned, ncalls>>

HM_Check(t) ==
    /\ th[t].pc = "hm_check"
    /\ LET found == has_proposal(open_proposals, th[t].circuit.circuit_id)
       IN  th' = [th EXCEPT ![t] =
                [@ EXCEPT !.found = found, !.pc = IF found THEN "hm_ret" ELSE "hm_insert"]]
    /\ UNCHANGED callframe
    /\ UNCHANGED <<network_sender, destroyed, open_proposals, peers, sent, lock, poisoned, ncalls>>

(* HM_Insert that also forwards the received bytes to the peer node *)
HM_Insert_Rebroadcasts(t) ==
    /\ th[t].pc = "hm_insert"
    /\ open_proposals' = add_proposal(open_proposals, NewProposal(th[t].circuit))
    /\ sent' = Append(sent, [recipient |-> admin_service_id(PeerNode), message |-> th[t].bytes])
    /\ th' = [th EXCEPT ![t] = [@ EXCEPT !.inserted = TRUE, !.pc = "hm_ret"]]
    /\ UNCHANGED callframe
    /\ UNCHANGED <<network_sender, destroyed, peers, lock, poisoned, ncalls>>

HM_Insert(t) ==
    /\ th[t].pc = "hm_insert"
    /\ open_proposals' = add_proposal(open_proposals, NewProposal(th[t].circuit))
    /\ th' = [th EXCEPT ![t] = [@ EXCEPT !.inserted = TRUE, !.pc = "hm_ret"]]
    /\ UNCHANGED callframe
    /\ UNCHANGED <<network_sender, destroyed, peers, sent, lock, poisoned, ncalls>>

HM_Return(t) ==
    /\ th[t].pc = "hm_ret"
    /\ lock' = drop_guard(t)
    /\ th' = [th EXCEPT ![t] = Return(@, "Ok")]
    /\ UNCHANGED callframe
    /\ UNCHANGED <<network_sender, destroyed, open_proposals, peers, sent, poisoned, ncalls>>

----------------------------------------------------------------------------
(* propose_circuit *)

propose_circuit(t, proposed_circuit) ==
    /\ ~destroyed /\ ctl.pc = "idle" /\ th[t].pc = "idle" /\ ncalls < budget
    /\ ncalls' = ncalls + 1
    /\ LET call == [NewCall("propose_circuit", network_sender = "Some")
                        EXCEPT !.circuit = proposed_circuit, !.pre = open_proposals]
       IN  th' = [th EXCEPT ![t] =
                IF is_none(network_sender) THEN Return(call, "NotStarted")
                ELSE [call EXCEPT !.pc = "pc_lock"]]
    /\ UNCHANGED callframe
    /\ UNCHANGED <<network_sender, destroyed, open_proposals, peers, sent, lock, poisoned>>

PC_Lock(t) ==
    /\ th[t].pc = "pc_lock" /\ CanLock(t)
    /\ IF LockPoisoned
       THEN /\ th' = [th EXCEPT ![t] = Return(@, "PoisonedLock")]
            /\ UNCHANGED lock
       ELSE /\ th' = [th EXCEPT ![t] = [@ EXCEPT !.pc = "pc_connect", !.pre = open_proposals]]
            /\ lock' = t
    /\ UNCHANGED callframe
    /\ UNCHANGED <<network_sender, destroyed, open_proposals, peers, sent, poisoned, ncalls>>

(* One iteration of the loop over proposed_circuit.get_members(); ok is the *)
(* outcome of connect_peer.                                                 *)
PC_Connect(t, ok) ==
    /\ th[t].pc = "pc_connect"
    /\ th[t].i <= Len(th[t].circuit.members)
    /\ LET node == th[t].circuit.members[th[t].i]
       IN  IF IsRemote(node)
           THEN LET attempt == [node_id |-> node.node_id, endpoint |-> node.endpoint, ok |-> ok]
                    tried == [th[t] EXCEPT !.connects = Append(@, attempt)]
                IN  IF ~ConnectFailed(ok)
                    THEN /\ peers' = peers \cup {node.node_id}
                         /\ th' = [th EXCEPT ![t] =
                                [tried EXCEPT !.member_node_ids = Append(@, node.node_id),
                                              !.i = @ + 1]]
                         /\ UNCHANGED lock
                    ELSE /\ th' = [th EXCEPT ![t] = Return(tried, "UnableToHandleMessage")]
                         /\ lock' = drop_guard(t)
                         /\ UNCHANGED peers
           ELSE /\ ok
                /\ th' = [th EXCEPT ![t] = [@ EXCEPT !.i = @ + 1]]
                /\ UNCHANGED <<peers, lock>>
    /\ UNCHANGED callframe
    /\ UNCHANGED <<network_sender, destroyed, open_proposals, sent, poisoned, ncalls>>

(* a connect loop that may be left before it has gone through the members *)
ConnectsDone_Early(t) == TRUE

(* Line 159: the for loop over get_members() is exhausted. *)
ConnectsDone(t) == th[t].i > Len(th[t].circuit.members)

(* an envelope built from the circuit with its member list cut down to this node *)
envelope_bytes_CutMembers(proposed_circuit) ==
    EnvelopeBytes(CreateEnvelope([proposed_circuit EXCEPT !.members = <<SplinterNode(SelfNode)>>]))

(* Lines 181-190: the serialized CIRCUIT_CREATE_REQUEST envelope of the circuit *)
envelope_bytes(proposed_circuit) == EnvelopeBytes(CreateEnvelope(proposed_circuit))

(* PC_Store with the mutex guard dropped once the proposal is stored *)
PC_Store_DropsGuard(t) ==
    /\ th[t].pc = "pc_connect"
    /\ ConnectsDone(t)
    /\ open_proposals' = add_proposal(open_proposals, NewProposal(th[t].circuit))
    /\ th' = [th EXCEPT ![t] =
            [@ EXCEPT !.inserted = TRUE,
                      !.bytes = envelope_bytes(th[t].circuit),
                      !.i = 1,
                      !.pc = "pc_send"]]
    /\ lock' = NoThread
    /\ UNCHANGED callframe
    /\ UNCHANGED <<network_sender, destroyed, peers, sent, poisoned, ncalls>>

(* Lines 171-190: build and store the proposal, build and serialize the envelope. *)
PC_Store(t) ==
    /\ th[t].pc = "pc_connect"
    /\ ConnectsDone(t)
    /\ open_proposals' = add_proposal(open_proposals, NewProposal(th[t].circuit))
    /\ th' = [th EXCEPT ![t] =
            [@ EXCEPT !.inserted = TRUE,
                      !.bytes = envelope_bytes(th[t].circuit),
                      !.i = 1,
                      !.pc = "pc_send"]]
    /\ UNCHANGED callframe
    /\ UNCHANGED <<network_sender, destroyed, peers, sent, lock, poisoned, ncalls>>

(* One iteration of the loop over member_node_ids; ok is the outcome of send. *)
PC_Send(t, ok) ==
    /\ th[t].pc = "pc_send"
    /\ th[t].i <= Len(th[t].member_node_ids)
    /\ LET msg == [recipient |-> admin_service_id(th[t].member_node_ids[th[t].i]),
                   message   |-> th[t].bytes]
           tried == [th[t] EXCEPT !.sends = Append(@, [recipient |-> msg.recipient,
                                                        message |-> msg.message,
                                                        ok |-> ok])]
       IN  IF ~SendFailed(ok)
           THEN /\ sent' = Append(sent, msg)
                /\ th' = [th EXCEPT ![t] = [tried EXCEPT !.i = @ + 1]]
                /\ UNCHANGED lock
           ELSE /\ th' = [th EXCEPT ![t] = Return(tried, "SendFailure")]
                /\ lock' = drop_guard(t)
                /\ UNCHANGED sent
    /\ UNCHANGED callframe
    /\ UNCHANGED <<network_sender, destroyed, open_proposals, peers, poisoned, ncalls>>

PC_Return(t) ==
    /\ th[t].pc = "pc_send"
    /\ th[t].i > Len(th[t].member_node_ids)
    /\ lock' = drop_guard(t)
    /\ th' = [th EXCEPT ![t] = Return(@, "Ok")]
    /\ UNCHANGED callframe
    /\ UNCHANGED <<network_sender, destroyed, open_proposals, peers, sent, poisoned, ncalls>>

----------------------------------------------------------------------------

Next ==
    \/ \E ok \in BOOLEAN : start(ok)
    \/ \E ok \in BOOLEAN : stop(ok)
    \/ destroy
    \/ LifecycleReturn
    \/ \E t \in Threads, b \in Inbound : handle_message(t, b)
    \/ \E t \in Threads : HM_Lock(t)
    \/ \E t \in Threads : HM_Check(t)
    \/ \E t \in Threads : HM_Insert(t)
    \/ \E t \in Threads : HM_Return(t)
    \/ \E t \in Threads, c \in Circuits : propose_circuit(t, c)
    \/ \E t \in Threads : PC_Lock(t)
    \/ \E t \in Threads, ok \in BOOLEAN : PC_Connect(t, ok)
    \/ \E t \in Threads : PC_Store(t)
    \/ \E t \in Threads, ok \in BOOLEAN : PC_Send(t, ok)
    \/ \E t \in Threads : PC_Return(t)

Spec == Init /\ [][Next]_vars

----------------------------------------------------------------------------
(* Panics. The code of propose_circuit and handle_message has no panic of   *)
(* its own under the lock; connect_peer and send are calls into other code  *)
(* made while the guard is held. A panic there unwinds the caller: the      *)
(* guard is dropped and the mutex is left poisoned.                         *)

Panic(t) ==
    /\ lock = t
    /\ \/ /\ th[t].pc = "pc_connect"
          /\ th[t].i <= Len(th[t].circuit.members)
          /\ IsRemote(th[t].circuit.members[th[t].i])
       \/ /\ th[t].pc = "pc_send"
          /\ th[t].i <= Len(th[t].member_node_ids)
    /\ poisoned' = TRUE
    /\ lock' = NoThread
    /\ th' = [th EXCEPT ![t] = Return(@, "panic")]
    /\ UNCHANGED callframe
    /\ UNCHANGED <<network_sender, destroyed, open_proposals, peers, sent, ncalls>>

InitPanic ==
    /\ network_sender = "None"
    /\ destroyed = FALSE
    /\ open_proposals = EmptyMap
    /\ peers = {}
    /\ sent = <<>>
    /\ lock = NoThread
    /\ poisoned = FALSE
    /\ th = [t \in Threads |-> NewCall("none", FALSE)]
    /\ ncalls = 0
    /\ budget = MaxPanicCalls
    /\ registry = {}
    /\ ctl = NoLifecycleCall
    /\ peer_node = NoPeerProposals
    /\ to_hex_calls = NoHexCalls

NextPanic == Next \/ \E t \in Threads : Panic(t)

SpecPanic == InitPanic /\ [][NextPanic]_vars

----------------------------------------------------------------------------
(* Scheduling. A thread that is inside a call keeps running: its next step *)
(* is taken if it stays possible. connect_peer and send return, with       *)
(* either outcome. A thread waiting in Mutex::lock is woken once the mutex *)
(* stays free; nothing is assumed about which of several waiters wins.     *)

CallStep(t) ==
    \/ HM_Lock(t)
    \/ HM_Check(t)
    \/ HM_Insert(t)
    \/ HM_Return(t)
    \/ PC_Lock(t)
    \/ \E ok \in BOOLEAN : PC_Connect(t, ok)
    \/ PC_Store(t)
    \/ \E ok \in BOOLEAN : PC_Send(t, ok)
    \/ PC_Return(t)

InitLive ==
    /\ network_sender = "None"
    /\ destroyed = FALSE
    /\ open_proposals = EmptyMap
    /\ peers = {}
    /\ sent = <<>>
    /\ lock = NoThread
    /\ poisoned = FALSE
    /\ th = [t \in Threads |-> NewCall("none", FALSE)]
    /\ ncalls = 0
    /\ budget = MaxLiveCalls
    /\ registry = {}
    /\ ctl = NoLifecycleCall
    /\ peer_node = NoPeerProposals
    /\ to_hex_calls = NoHexCalls

SpecLive == InitLive /\ [][Next]_vars /\ \A t \in Threads : WF_vars(CallStep(t))

----------------------------------------------------------------------------
(* Vocabulary of the properties *)

(* Thread t takes a step that ends its call. *)
Returns(t) == th'[t] # th[t] /\ th'[t].pc = "idle"

(* Thread t takes a step of its call. *)
Steps(t) == th'[t] # th[t]

(* A call record of handle_message on a started service whose bytes decode. *)
DecodedCall(r) == r.op = "handle_message" /\ r.started /\ Decodable(r.bytes)
CreateCall(r) == DecodedCall(r) /\ parse_from_bytes(r.bytes).action = CIRCUIT_CREATE_REQUEST
UnknownActionCall(r) == DecodedCall(r) /\ parse_from_bytes(r.bytes).action # CIRCUIT_CREATE_REQUEST
GarbageCall(r) == r.op = "handle_message" /\ r.started /\ ~Decodable(r.bytes)
ReceivedCircuit(r) == parse_from_bytes(r.bytes).circuit

ProposeCall(r) == r.op = "propose_circuit" /\ r.started

NotSelf(n) == n.node_id # SelfNode
RemoteMembers(c) == SelectSeq(c.members, NotSelf)

ExpectedConnects(c) ==
    [j \in 1..Len(RemoteMembers(c)) |->
        [node_id |-> RemoteMembers(c)[j].node_id,
         endpoint |-> RemoteMembers(c)[j].endpoint,
         ok |-> TRUE]]

ExpectedMessages(c) ==
    [j \in 1..Len(RemoteMembers(c)) |->
        [recipient |-> <<"admin::", RemoteMembers(c)[j].node_id>>,
         message |-> EnvelopeBytes([action |-> CIRCUIT_CREATE_REQUEST, circuit |-> c])]]

Delivered(sends) ==
    [j \in 1..Len(sends) |-> [recipient |-> sends[j].recipient, message |-> sends[j].message]]

LastN(seq, n) == SubSeq(seq, Len(seq) - n + 1, Len(seq))

InLockedSection(pc) == pc \in {"hm_check", "hm_insert", "hm_ret", "pc_connect", "pc_send"}

ExpectedProposal(c) ==
    [ proposal_type    |-> "CREATE",
      circuit_id       |-> c.circuit_id,
      circuit_hash     |-> sha256(c),
      circuit_proposal |-> c ]

WithEntry(map, c) ==
    [k \in DOMAIN map \cup {c.circuit_id} |->
        IF k = c.circuit_id THEN ExpectedProposal(c) ELSE map[k]]

EntriesKept ==
    \A id \in DOMAIN open_proposals :
        id \in DOMAIN open_proposals' /\ open_proposals'[id] = open_proposals[id]

----------------------------------------------------------------------------
(* C1: dedup idempotence of the inbound path. No step of a handle_message  *)
(* call changes an entry the open-proposals map already holds, and a       *)
(* handle_message call for a CIRCUIT_CREATE_REQUEST returns Ok with the    *)
(* map as it found it when the circuit_id was present, and with the map    *)
(* extended by the proposal built from its own envelope when it was not:   *)
(* of several envelopes for one id, the first processed is the one kept.   *)
C1_DedupIdempotence ==
    [][\A t \in Threads :
        /\ (Steps(t) /\ th'[t].op = "handle_message") => EntriesKept
        /\ (Returns(t) /\ CreateCall(th'[t])) =>
              /\ th'[t].result = "Ok"
              /\ open_proposals' =
                    IF ReceivedCircuit(th'[t]).circuit_id \in DOMAIN th'[t].pre
                    THEN th'[t].pre
                    ELSE WithEntry(th'[t].pre, ReceivedCircuit(th'[t]))
      ]_vars

(* Two CREATE envelopes for one circuit_id with different circuits have    *)
(* been handled; the first was stored, the second found it and stored      *)
(* nothing.                                                                *)
C1_Witness ==
    \E t, u \in Threads :
        /\ t # u
        /\ th[t].pc = "idle" /\ th[u].pc = "idle"
        /\ CreateCall(th[t]) /\ CreateCall(th[u])
        /\ th[t].result = "Ok" /\ th[u].result = "Ok"
        /\ ReceivedCircuit(th[t]).circuit_id = ReceivedCircuit(th[u]).circuit_id
        /\ ReceivedCircuit(th[t]) # ReceivedCircuit(th[u])
        /\ th[t].inserted /\ th[u].found /\ ~th[u].inserted
        /\ ReceivedCircuit(th[t]).circuit_id \in DOMAIN open_proposals
        /\ open_proposals[ReceivedCircuit(th[t]).circuit_id]
              = ExpectedProposal(ReceivedCircuit(th[t]))

(* C2: once the open-proposals map holds an entry for a circuit_id, no     *)
(* later step of any operation changes that entry.                         *)
C2_FirstInsertWins == [][EntriesKept]_vars

(* C3: check-then-insert of the inbound path is atomic. Two threads are    *)
(* never both between the has_proposal check and the end of the CREATE     *)
(* branch; of two handle_message calls for one circuit_id at most one runs *)
(* add_proposal; and a call inserts exactly when has_proposal told it the  *)
(* id was absent from the map it locked.                                   *)
C3_CheckThenInsertAtomic ==
    /\ \A t, u \in Threads :
          t # u =>
            /\ ~(th[t].pc \in {"hm_check", "hm_insert", "hm_ret"}
                    /\ th[u].pc \in {"hm_check", "hm_insert", "hm_ret"})
            /\ ~(/\ CreateCall(th[t]) /\ CreateCall(th[u])
                 /\ ReceivedCircuit(th[t]).circuit_id = ReceivedCircuit(th[u]).circuit_id
                 /\ th[t].inserted /\ th[u].inserted)
    /\ \A t \in Threads :
          (CreateCall(th[t]) /\ th[t].pc \in {"hm_ret", "idle"} /\ th[t].result # "PoisonedLock") =>
            /\ th[t].inserted = ~th[t].found
            /\ th[t].found = (ReceivedCircuit(th[t]).circuit_id \in DOMAIN th[t].pre)

(* One thread holds the lock and is about to insert while the other,       *)
(* carrying the same circuit_id, waits for the lock.                       *)
C3_Witness ==
    \E t, u \in Threads :
        /\ t # u
        /\ th[t].pc = "hm_insert" /\ th[u].pc = "hm_lock"
        /\ th[t].circuit.circuit_id = th[u].circuit.circuit_id
        /\ lock = t

----------------------------------------------------------------------------
(* C4: lifecycle gating. A call begun while network_sender is None returns *)
(* NotStarted, and no step of it changes the open-proposals map, connects  *)
(* a peer or sends a message. A call begun while it is Some returns Ok     *)
(* when it is handle_message with a decodable CREATE envelope, and when it *)
(* is propose_circuit and no connect and no send of the call failed.       *)
C4_LifecycleGating ==
    /\ [][\A t \in Threads :
            (Steps(t) /\ th'[t].op # "none" /\ ~th'[t].started) =>
                /\ Returns(t)
                /\ th'[t].result = "NotStarted"
                /\ open_proposals' = open_proposals
                /\ peers' = peers
                /\ sent' = sent
                /\ th'[t].connects = <<>> /\ th'[t].sends = <<>>
         ]_vars
    /\ [](\A t \in Threads :
            (th[t].pc = "idle" /\ th[t].op # "none" /\ th[t].started) =>
                /\ CreateCall(th[t]) => th[t].result = "Ok"
                /\ (/\ ProposeCall(th[t])
                    /\ \A j \in 1..Len(th[t].connects) : th[t].connects[j].ok
                    /\ \A j \in 1..Len(th[t].sends) : th[t].sends[j].ok)
                      => th[t].result = "Ok")

(* The service was started, registered an inbound proposal and sent an     *)
(* originated one, and was stopped; a call made after the stop returned    *)
(* NotStarted.                                                             *)
C4_Witness ==
    \E t, u \in Threads :
        /\ t # u
        /\ network_sender = "None"
        /\ th[t].pc = "idle" /\ th[u].pc = "idle"
        /\ th[t].op = "propose_circuit" /\ ~th[t].started /\ th[t].result = "NotStarted"
        /\ CreateCall(th[u]) /\ th[u].result = "Ok"
        /\ open_proposals # EmptyMap
        /\ sent # <<>>

(* C5: fan-out. When propose_circuit(c) returns Ok, the connect_peer calls *)
(* it made are exactly one successful (node_id, endpoint) per member entry *)
(* other than this node, the sends it made are exactly one per such member *)
(* to admin::<node_id>, each carrying the CIRCUIT_CREATE_REQUEST envelope  *)
(* that decodes to c, these are the last messages handed to the sender,    *)
(* the members are connected peers, and the map holds the proposal of c.   *)
C5_FanOut ==
    [][\A t \in Threads :
        (Returns(t) /\ ProposeCall(th'[t]) /\ th'[t].result = "Ok") =>
            LET c == th'[t].circuit
                n == Len(RemoteMembers(c))
            IN  /\ th'[t].connects = ExpectedConnects(c)
                /\ Delivered(th'[t].sends) = ExpectedMessages(c)
                /\ \A j \in 1..Len(th'[t].sends) :
                      /\ th'[t].sends[j].ok
                      /\ Decodable(th'[t].sends[j].message)
                      /\ parse_from_bytes(th'[t].sends[j].message) = CreateEnvelope(c)
                /\ Len(sent') >= n
                /\ LastN(sent', n) = ExpectedMessages(c)
                /\ \A j \in 1..n : RemoteMembers(c)[j].node_id \in peers'
                /\ c.circuit_id \in DOMAIN open_proposals'
                /\ open_proposals'[c.circuit_id] = ExpectedProposal(c)
      ]_vars

(* A proposal with two remote members around this node has returned Ok,    *)
(* and so has one whose only member is this node.                          *)
C5_Witness ==
    \E t, u \in Threads :
        /\ t # u
        /\ th[t].pc = "idle" /\ th[u].pc = "idle"
        /\ ProposeCall(th[t]) /\ th[t].result = "Ok"
        /\ Len(th[t].circuit.members) = 3 /\ Len(th[t].sends) = 2
        /\ ProposeCall(th[u]) /\ th[u].result = "Ok"
        /\ Len(RemoteMembers(th[u].circuit)) = 0 /\ th[u].inserted
        /\ Len(sent) = 2

----------------------------------------------------------------------------
(* C6: a failed connect_peer ends propose_circuit at once. The call with a *)
(* failed connect has returned UnableToHandleMessage, has run no           *)
(* add_proposal and no send, and at its return the open-proposals map is   *)
(* the map it locked and the messages handed to the sender are unchanged.  *)
C6_ConnectFailureAborts ==
    /\ [](\A t \in Threads :
            (ProposeCall(th[t]) /\ \E j \in 1..Len(th[t].connects) : ~th[t].connects[j].ok) =>
                /\ th[t].pc = "idle"
                /\ th[t].result = "UnableToHandleMessage"
                /\ th[t].sends = <<>>
                /\ ~th[t].inserted)
    /\ [][\A t \in Threads :
            (/\ Returns(t) /\ ProposeCall(th'[t])
             /\ \E j \in 1..Len(th'[t].connects) : ~th'[t].connects[j].ok) =>
                /\ open_proposals' = th'[t].pre
                /\ sent' = sent
         ]_vars

(* The connect to the second remote member failed after the first had      *)
(* succeeded: the call returned the error and stored nothing.              *)
C6_Witness ==
    \E t \in Threads :
        /\ th[t].pc = "idle" /\ ProposeCall(th[t])
        /\ th[t].result = "UnableToHandleMessage"
        /\ Len(th[t].connects) = 2
        /\ th[t].connects[1].ok /\ ~th[t].connects[2].ok
        /\ th[t].connects[1].node_id \in peers
        /\ th[t].circuit.circuit_id \notin DOMAIN open_proposals
        /\ sent = <<>>

(* C7: a failed send ends propose_circuit at once. When the k-th send of   *)
(* the call fails, the call has returned SendFailure, its sends are the    *)
(* first k expected messages in member order, each made once, all but the  *)
(* last delivered, and at its return the map still holds the proposal the  *)
(* call stored.                                                            *)
C7_SendFailureAborts ==
    /\ [](\A t \in Threads :
            (ProposeCall(th[t]) /\ \E j \in 1..Len(th[t].sends) : ~th[t].sends[j].ok) =>
                LET k == Len(th[t].sends)
                IN  /\ th[t].pc = "idle"
                    /\ th[t].result = "SendFailure"
                    /\ \A j \in 1..k : th[t].sends[j].ok = (j < k)
                    /\ k <= Len(ExpectedMessages(th[t].circuit))
                    /\ Delivered(th[t].sends) = SubSeq(ExpectedMessages(th[t].circuit), 1, k)
                    /\ th[t].inserted)
    /\ [][\A t \in Threads :
            (/\ Returns(t) /\ ProposeCall(th'[t])
             /\ \E j \in 1..Len(th'[t].sends) : ~th'[t].sends[j].ok) =>
                LET c == th'[t].circuit
                    k == Len(th'[t].sends)
                IN  /\ c.circuit_id \in DOMAIN open_proposals'
                    /\ open_proposals'[c.circuit_id] = ExpectedProposal(c)
                    /\ sent' = sent
                    /\ Len(sent') >= k - 1
                    /\ LastN(sent', k - 1) = SubSeq(ExpectedMessages(c), 1, k - 1)
         ]_vars

(* The send to the second remote member failed: the first member has its   *)
(* envelope, and the proposal is in the map.                               *)
C7_Witness ==
    \E t \in Threads :
        /\ th[t].pc = "idle" /\ ProposeCall(th[t])
        /\ th[t].result = "SendFailure"
        /\ Len(th[t].sends) = 2 /\ th[t].sends[1].ok /\ ~th[t].sends[2].ok
        /\ Len(sent) = 1
        /\ th[t].circuit.circuit_id \in DOMAIN open_proposals
        /\ open_proposals[th[t].circuit.circuit_id] = ExpectedProposal(th[t].circuit)

(* C8: unknown action tolerance. A handle_message call on a started        *)
(* service whose envelope decodes with an action other than                *)
(* CIRCUIT_CREATE_REQUEST is a single step that returns Ok and leaves the  *)
(* open-proposals map, the lifecycle state, the peers and the sent         *)
(* messages as they were.                                                  *)
C8_UnknownActionTolerated ==
    [][\A t \in Threads :
        (Steps(t) /\ UnknownActionCall(th'[t])) =>
            /\ Returns(t)
            /\ th'[t].result = "Ok"
            /\ ~th'[t].inserted
            /\ open_proposals' = open_proposals
            /\ network_sender' = network_sender
            /\ destroyed' = destroyed
            /\ peers' = peers
            /\ sent' = sent
      ]_vars

(* An envelope with another action was handled while proposals were open   *)
(* and messages had been sent.                                             *)
C8_Witness ==
    \E t \in Threads :
        /\ th[t].pc = "idle" /\ UnknownActionCall(th[t]) /\ th[t].result = "Ok"
        /\ th[t].pre # EmptyMap /\ open_proposals = th[t].pre
        /\ sent # <<>>
        /\ network_sender = "Some"

(* C9: decode failures are isolated. A handle_message call on a started    *)
(* service whose bytes do not decode is a single step that returns         *)
(* InvalidMessageFormat and leaves the map unchanged and the service       *)
(* started; and a CREATE envelope for a circuit_id not yet in the map that *)
(* is processed after such a failure returns Ok with its proposal added.   *)
C9_DecodeFailureIsolated ==
    [][\A t \in Threads :
        /\ (Steps(t) /\ GarbageCall(th'[t])) =>
              /\ Returns(t)
              /\ th'[t].result = "InvalidMessageFormat"
              /\ open_proposals' = open_proposals
              /\ network_sender' = "Some"
              /\ destroyed' = destroyed
        /\ (th[t].pc = "idle" /\ GarbageCall(th[t])) =>
              \A u \in Threads \ {t} :
                  (/\ Returns(u) /\ CreateCall(th'[u])
                   /\ ReceivedCircuit(th'[u]).circuit_id \notin DOMAIN th'[u].pre) =>
                      /\ th'[u].result = "Ok"
                      /\ open_proposals' = WithEntry(th'[u].pre, ReceivedCircuit(th'[u]))
      ]_vars

(* Undecodable bytes have been rejected, and another thread's CREATE for a *)
(* new circuit_id has since been registered, next to an earlier proposal.  *)
C9_Witness ==
    \E t, u \in Threads :
        /\ t # u
        /\ th[t].pc = "idle" /\ GarbageCall(th[t]) /\ th[t].result = "InvalidMessageFormat"
        /\ th[t].pre # EmptyMap
        /\ th[u].pc = "idle" /\ CreateCall(th[u]) /\ th[u].result = "Ok" /\ th[u].inserted
        /\ th[u].pre = th[t].pre
        /\ DOMAIN open_proposals = DOMAIN th[t].pre \cup {ReceivedCircuit(th[u]).circuit_id}
        /\ ReceivedCircuit(th[u]).circuit_id \notin DOMAIN th[t].pre
        /\ network_sender = "Some"

(* C10: propose_circuit holds the admin state lock from before its first   *)
(* connect_peer until it returns. While a propose_circuit call is in its   *)
(* connect loop, store or send loop it is the lock holder, no other thread *)
(* is in a locked section (the CREATE branch of handle_message or another  *)
(* propose_circuit), and every change of the open-proposals map, the       *)
(* connected peers or the sent messages is a step of that call.            *)
C10_ProposeHoldsLock ==
    /\ [](\A t \in Threads :
            th[t].pc \in {"pc_connect", "pc_send"} =>
                /\ lock = t
                /\ \A u \in Threads \ {t} : ~InLockedSection(th[u].pc))
    /\ [](Cardinality({t \in Threads : InLockedSection(th[t].pc)}) <= 1)
    /\ [][\A t \in Threads :
            (/\ th[t].pc \in {"pc_connect", "pc_send"}
             /\ \/ open_proposals' # open_proposals
                \/ peers' # peers
                \/ sent' # sent) => Steps(t)
         ]_vars

(* A propose_circuit call has sent its first envelope and has one more to  *)
(* send, while the other thread waits for the lock with a call of its own. *)
C10_Witness ==
    \E t, u \in Threads :
        /\ t # u
        /\ th[t].pc = "pc_send" /\ Len(th[t].sends) = 1 /\ Len(th[t].member_node_ids) = 2
        /\ lock = t
        /\ th[u].pc \in {"hm_lock", "pc_lock"}

----------------------------------------------------------------------------
(* C11: lock poisoning is permanent and never bypassed. Once the admin     *)
(* state mutex is poisoned it stays poisoned, the open-proposals map never *)
(* changes again, no thread is ever again in a section that reads or       *)
(* writes the map, and every propose_circuit call and every handle_message *)
(* call with a CIRCUIT_CREATE_REQUEST that returns on the started service  *)
(* after the poisoning returns PoisonedLock.                               *)
C11_PoisonPermanent ==
    /\ [](poisoned =>
            /\ lock = NoThread
            /\ \A t \in Threads : ~InLockedSection(th[t].pc))
    /\ [][poisoned =>
            /\ poisoned'
            /\ open_proposals' = open_proposals
            /\ \A t \in Threads :
                  (Returns(t) /\ (ProposeCall(th'[t]) \/ CreateCall(th'[t]))) =>
                      th'[t].result = "PoisonedLock"
         ]_vars

(* One call panicked under the lock after storing its proposal; a call     *)
(* made afterwards on the started service returned PoisonedLock and the    *)
(* map is as the panicking call left it.                                   *)
C11_Witness ==
    \E t, u \in Threads :
        /\ t # u
        /\ poisoned
        /\ th[t].pc = "idle" /\ th[t].result = "panic" /\ th[t].inserted
        /\ th[u].pc = "idle" /\ th[u].started /\ th[u].result = "PoisonedLock"
        /\ th[u].pre = open_proposals
        /\ open_proposals # EmptyMap
        /\ network_sender = "Some"

----------------------------------------------------------------------------
(* The admin service on node PeerNode runs the same handle_message. It is  *)
(* started and has one delivery thread; the network hands it, in any order *)
(* and any number of times, the messages this node sent to its identity.   *)

PeerReceive(k) ==
    /\ k \in 1..Len(sent)
    /\ sent[k].recipient = admin_service_id(PeerNode)
    /\ Decodable(sent[k].message)
    /\ LET envelope == parse_from_bytes(sent[k].message)
           proposed_circuit == envelope.circuit
           id == proposed_circuit.circuit_id
       IN  /\ Dispatch(envelope.action) = "create"
           /\ ~has_proposal(peer_node.open_proposals, id)
           /\ peer_node' =
                 [open_proposals |->
                      add_proposal(peer_node.open_proposals, NewProposal(proposed_circuit)),
                  source |-> [x \in DOMAIN peer_node.source \cup {id} |->
                                 IF x = id THEN k ELSE peer_node.source[x]]]
    /\ UNCHANGED <<network_sender, destroyed, open_proposals, peers, sent, lock, poisoned, th,
                   ncalls, budget, registry, ctl, to_hex_calls>>

InitNet ==
    /\ network_sender = "None"
    /\ destroyed = FALSE
    /\ open_proposals = EmptyMap
    /\ peers = {}
    /\ sent = <<>>
    /\ lock = NoThread
    /\ poisoned = FALSE
    /\ th = [t \in Threads |-> NewCall("none", FALSE)]
    /\ ncalls = 0
    /\ budget = MaxNetCalls
    /\ registry = {}
    /\ ctl = NoLifecycleCall
    /\ peer_node = NoPeerProposals
    /\ to_hex_calls = NoHexCalls

NextNet == Next \/ \E k \in 1..Len(sent) : PeerReceive(k)

SpecNet == InitNet /\ [][NextNet]_vars

----------------------------------------------------------------------------
(* Lifecycle state of the service. *)
Lifecycle ==
    IF destroyed THEN "Destroyed"
    ELSE IF network_sender = "Some" THEN "Started" ELSE "NotStarted"

OwnIdentity == <<"admin::", SelfNode>>

(* C12: the lifecycle state machine. NotStarted becomes Started only by a  *)
(* start that returns Ok, with this service's identity admin::<node_id>    *)
(* bound in the registry; Started becomes NotStarted only by a stop that   *)
(* returns Ok; Destroyed is entered only by destroy, which returns Ok; and *)
(* no step of any operation is taken from Destroyed. A sender is held      *)
(* exactly while the identity is bound.                                    *)
C12_LifecycleStateMachine ==
    /\ []((network_sender = "Some") = (OwnIdentity \in registry))
    /\ [](ctl.op = "destroy" => (ctl.result = "Ok" /\ destroyed))
    /\ [][/\ (Lifecycle = "NotStarted" /\ Lifecycle' = "Started") =>
                /\ ctl'.op = "start" /\ ctl'.result = "Ok"
                /\ registry' = registry \cup {OwnIdentity}
          /\ (Lifecycle = "Started" /\ Lifecycle' = "NotStarted") =>
                /\ ctl'.op = "stop" /\ ctl'.result = "Ok"
                /\ registry' = registry \ {OwnIdentity}
          /\ (Lifecycle # "Destroyed" /\ Lifecycle' = "Destroyed") =>
                /\ ctl'.op = "destroy" /\ ctl'.result = "Ok"
                /\ network_sender' = network_sender
          /\ Lifecycle # "Destroyed"
         ]_vars

(* A service that was started, took a proposal, was stopped and then       *)
(* destroyed.                                                              *)
C12_Witness ==
    /\ destroyed
    /\ ctl.op = "destroy"
    /\ network_sender = "None"
    /\ registry = {}
    /\ open_proposals # EmptyMap

----------------------------------------------------------------------------
(* The envelope from which the peer node registered its entry for id. *)
PeerSource(id) == sent[peer_node.source[id]]

(* Call record r is a propose_circuit call that returned Ok and one of     *)
(* whose sends is the message msg.                                         *)
OriginatedBy(r, msg) ==
    /\ ProposeCall(r) /\ r.pc = "idle" /\ r.result = "Ok"
    /\ \E j \in 1..Len(r.sends) :
          /\ r.sends[j].ok
          /\ r.sends[j].recipient = msg.recipient
          /\ r.sends[j].message = msg.message

(* C13: cross-node hash agreement. Whenever the peer node holds an entry   *)
(* that it registered from an envelope of a propose_circuit(c) call that   *)
(* returned Ok on this node, the entry is keyed by c's circuit_id, has     *)
(* proposal_type CREATE, embeds exactly c, carries the hash of c, and,     *)
(* while this node's own entry for the id is still the one stored for c,   *)
(* the two circuit_hash values are equal.                                  *)
C13_CrossNodeHashAgreement ==
    \A id \in DOMAIN peer_node.open_proposals :
        /\ id \in DOMAIN peer_node.source
        /\ PeerSource(id).recipient = admin_service_id(PeerNode)
        /\ \A t \in Threads :
              OriginatedBy(th[t], PeerSource(id)) =>
                 LET c == th[t].circuit
                     e == peer_node.open_proposals[id]
                 IN  /\ c.circuit_id = id
                     /\ e.proposal_type = CREATE
                     /\ e.circuit_id = c.circuit_id
                     /\ e.circuit_proposal = c
                     /\ e.circuit_hash = sha256(c)
                     /\ id \in DOMAIN open_proposals
                     /\ open_proposals[id].circuit_proposal = c =>
                            e.circuit_hash = open_proposals[id].circuit_hash

(* The three-member circuit was originated with Ok, and the peer node has  *)
(* registered it from the envelope it was sent; both nodes hold the entry. *)
C13_Witness ==
    \E t \in Threads :
        /\ th[t].circuit.circuit_id \in DOMAIN peer_node.open_proposals
        /\ OriginatedBy(th[t], PeerSource(th[t].circuit.circuit_id))
        /\ Len(th[t].circuit.members) = 3
        /\ th[t].circuit.circuit_id \in DOMAIN open_proposals
        /\ open_proposals[th[t].circuit.circuit_id].circuit_proposal = th[t].circuit
        /\ peer_node.open_proposals[th[t].circuit.circuit_id].circuit_hash =
              open_proposals[th[t].circuit.circuit_id].circuit_hash

----------------------------------------------------------------------------
(* C14: the set of circuit_ids of the open-proposals map only grows. No    *)
(* step of start, stop, destroy, handle_message or propose_circuit,        *)
(* whatever its outcome, takes a circuit_id out of the map.                *)
C14_IdsOnlyGrow == [][DOMAIN open_proposals \subseteq DOMAIN open_proposals']_vars

(* Both circuit_ids are in the map, one of them stored by a call that then *)
(* failed at a send, and the service has since been stopped.               *)
C14_Witness ==
    /\ DOMAIN open_proposals = CircuitIds
    /\ network_sender = "None"
    /\ \E t \in Threads :
          /\ ProposeCall(th[t]) /\ th[t].pc = "idle" /\ th[t].result = "SendFailure"
          /\ th[t].inserted

----------------------------------------------------------------------------
(* C15: origination stores unconditionally. The step by which a            *)
(* propose_circuit(c) call leaves the connect loop with every connect      *)
(* done sets the entry for c's circuit_id to the CREATE proposal built     *)
(* from c and leaves every other entry alone, whether or not the id was    *)
(* in the map; and while the call is in its send loop the entry is that    *)
(* proposal.                                                               *)
C15_OriginationStoresUnconditionally ==
    /\ [](\A t \in Threads :
            (ProposeCall(th[t]) /\ th[t].pc = "pc_send") =>
                /\ th[t].inserted
                /\ th[t].circuit.circuit_id \in DOMAIN open_proposals
                /\ open_proposals[th[t].circuit.circuit_id] = ExpectedProposal(th[t].circuit))
    /\ [][\A t \in Threads :
            (ProposeCall(th[t]) /\ th[t].pc = "pc_connect" /\ th'[t].pc = "pc_send") =>
                /\ open_proposals' = WithEntry(open_proposals, th[t].circuit)
                /\ \A j \in 1..Len(th[t].connects) : th[t].connects[j].ok
                /\ Len(th[t].connects) = Len(RemoteMembers(th[t].circuit))]_vars

(* A propose_circuit call is in its send loop; when it took the lock the   *)
(* map held another circuit under the same circuit_id, and the map now     *)
(* holds the proposal of the call's circuit.                               *)
C15_Witness ==
    \E t \in Threads :
        LET c == th[t].circuit
        IN  /\ ProposeCall(th[t]) /\ th[t].pc = "pc_send"
            /\ c.circuit_id \in DOMAIN th[t].pre
            /\ th[t].pre[c.circuit_id].circuit_proposal # c
            /\ open_proposals[c.circuit_id] = ExpectedProposal(c)

----------------------------------------------------------------------------
(* C16: every call terminates and releases the lock. A thread that is      *)
(* inside a handle_message or propose_circuit call eventually is back      *)
(* outside with a result; a thread waiting for the lock eventually holds   *)
(* it; a thread that is outside a call does not hold the lock, whatever    *)
(* the result of its last call; and the lock is held only by a thread in   *)
(* the locked section of its call.                                         *)
C16_TerminatesAndReleases ==
    /\ [](\A t \in Threads : th[t].pc = "idle" => lock # t)
    /\ [](lock # NoThread => InLockedSection(th[lock].pc))
    /\ [][\A t \in Threads : Returns(t) => (lock' # t /\ th'[t].result # "none")]_vars
    /\ \A t \in Threads : (th[t].pc # "idle") ~> (th[t].pc = "idle" /\ th[t].result # "none")
    /\ \A t \in Threads : (th[t].pc \in {"hm_lock", "pc_lock"}) ~> (lock = t)

(* One thread's propose_circuit has returned SendFailure with the lock     *)
(* released, and the other thread, whose call began meanwhile, now holds   *)
(* the lock.                                                               *)
C16_Witness ==
    \E t, u \in Threads :
        /\ t # u
        /\ ProposeCall(th[t]) /\ th[t].pc = "idle" /\ th[t].result = "SendFailure"
        /\ th[u].pc \in {"hm_check", "pc_connect"}
        /\ lock = u
        /\ th[u].pre = open_proposals
        /\ th[t].circuit.circuit_id \in DOMAIN th[u].pre

----------------------------------------------------------------------------
(* C17: step ordering inside one propose_circuit call. The connects made   *)
(* so far are the first remote members in member-list order; the proposal  *)
(* is stored only when every remote member has been connected with         *)
(* success; sends are made only after the store and are the first remote   *)
(* members in member-list order. Hence the circuit_id of every envelope    *)
(* this node has sent is in its open-proposals map.                        *)
C17_StepOrdering ==
    /\ \A t \in Threads :
          ProposeCall(th[t]) =>
             LET c == th[t].circuit
                 nc == Len(th[t].connects)
                 ns == Len(th[t].sends)
             IN  /\ nc <= Len(RemoteMembers(c))
                 /\ \A j \in 1..nc :
                       /\ th[t].connects[j].node_id = ExpectedConnects(c)[j].node_id
                       /\ th[t].connects[j].endpoint = ExpectedConnects(c)[j].endpoint
                 /\ th[t].inserted =>
                       /\ nc = Len(RemoteMembers(c))
                       /\ \A j \in 1..nc : th[t].connects[j].ok
                 /\ ns > 0 => th[t].inserted
                 /\ ns <= Len(RemoteMembers(c))
                 /\ Delivered(th[t].sends) = SubSeq(ExpectedMessages(c), 1, ns)
    /\ \A k \in 1..Len(sent) :
          /\ Decodable(sent[k].message)
          /\ parse_from_bytes(sent[k].message).circuit.circuit_id \in DOMAIN open_proposals

(* A call for the three-member circuit is between its two sends: both      *)
(* connects are done, the proposal is stored, one envelope is out.         *)
C17_Witness ==
    \E t \in Threads :
        /\ ProposeCall(th[t]) /\ th[t].pc = "pc_send"
        /\ Len(th[t].connects) = 2 /\ th[t].inserted /\ Len(th[t].sends) = 1
        /\ th[t].sends[1].ok
        /\ sent # <<>>
        /\ sent[Len(sent)].recipient = admin_service_id(PeerNode)
        /\ parse_from_bytes(sent[Len(sent)].message).circuit = th[t].circuit

----------------------------------------------------------------------------
(* C18: stored proposals are well formed. Every entry of the               *)
(* open-proposals map is keyed by its circuit_id, which is the circuit_id  *)
(* of the circuit it embeds; its proposal_type is CREATE; and its          *)
(* circuit_hash is sha256 of the circuit it embeds.                        *)
C18_StoredProposalsWellFormed ==
    \A id \in DOMAIN open_proposals :
        LET e == open_proposals[id]
        IN  /\ e.circuit_id = id
            /\ e.circuit_proposal.circuit_id = id
            /\ e.proposal_type = CREATE
            /\ e.circuit_hash = sha256(e.circuit_proposal)

(* The map holds one entry stored by handle_message and one stored by      *)
(* propose_circuit.                                                        *)
C18_Witness ==
    \E t, u \in Threads :
        /\ CreateCall(th[t]) /\ th[t].inserted
        /\ ProposeCall(th[u]) /\ th[u].inserted
        /\ ReceivedCircuit(th[t]).circuit_id # th[u].circuit.circuit_id
        /\ DOMAIN open_proposals = CircuitIds
        /\ open_proposals[ReceivedCircuit(th[t]).circuit_id].circuit_proposal = ReceivedCircuit(th[t])
        /\ open_proposals[th[u].circuit.circuit_id].circuit_proposal = th[u].circuit

----------------------------------------------------------------------------
(* C19: failed lifecycle calls do not change the lifecycle state. A start  *)
(* that returns StartFailure and a stop that returns StopFailure leave the *)
(* sender and the registry binding as they were, so a service that was     *)
(* Started is Started after a failed stop; and a handle_message or         *)
(* propose_circuit call is accepted exactly when a sender is held at the   *)
(* time it begins.                                                         *)
C19_FailedLifecycleKeepsState ==
    /\ [][(ctl.pc = "idle" /\ ctl'.result \in {"StartFailure", "StopFailure"}) =>
              /\ ctl'.op = (IF ctl'.result = "StartFailure" THEN "start" ELSE "stop")
              /\ network_sender' = network_sender
              /\ registry' = registry
              /\ Lifecycle' = Lifecycle]_vars
    /\ [][\A t \in Threads :
              (th[t].pc = "idle" /\ Steps(t)) =>
                  /\ th'[t].started = (network_sender = "Some")
                  /\ th'[t].started = (th'[t].result # "NotStarted")]_vars

(* A stop has just returned StopFailure on a service that had been started *)
(* and had stored a proposal; the sender is still held.                    *)
C19_Witness ==
    /\ ctl = LifecycleCall("stop", "StopFailure")
    /\ network_sender = "Some"
    /\ OwnIdentity \in registry
    /\ open_proposals # EmptyMap

----------------------------------------------------------------------------
(* C20: the inbound path never propagates. No step of a handle_message     *)
(* call, on any branch, sends a message or connects a peer, and the call   *)
(* records no send and no connect. A step adds an envelope to those sent   *)
(* exactly when it is a successful send of a propose_circuit call, and it  *)
(* adds that one envelope; so the envelopes sent are as many as the        *)
(* successful sends of propose_circuit calls.                              *)
C20_InboundNeverPropagates ==
    /\ [][\A t \in Threads :
              (Steps(t) /\ th'[t].op = "handle_message") =>
                  /\ sent' = sent
                  /\ peers' = peers
                  /\ th'[t].sends = <<>>
                  /\ th'[t].connects = <<>>]_vars
    /\ [][sent' # sent =>
              \E t \in Threads :
                  /\ ProposeCall(th[t]) /\ th[t].pc = "pc_send"
                  /\ Len(th'[t].sends) = Len(th[t].sends) + 1
                  /\ th'[t].sends[Len(th'[t].sends)].ok
                  /\ sent' = Append(sent, Delivered(th'[t].sends)[Len(th'[t].sends)])]_vars
    /\ [][\A t \in Threads :
              (/\ ProposeCall(th[t])
               /\ Len(th'[t].sends) = Len(th[t].sends) + 1
               /\ th'[t].sends[Len(th'[t].sends)].ok) =>
                  Len(sent') = Len(sent) + 1]_vars

(* A handle_message call has stored a new proposal and returned Ok, a      *)
(* propose_circuit call of the other thread has made its two sends, and    *)
(* exactly those two envelopes have been sent.                             *)
C20_Witness ==
    \E t, u \in Threads :
        /\ CreateCall(th[t]) /\ th[t].pc = "idle" /\ th[t].inserted /\ th[t].result = "Ok"
        /\ ProposeCall(th[u]) /\ th[u].pc = "idle" /\ th[u].result = "Ok"
        /\ Len(th[u].sends) = 2
        /\ sent = Delivered(th[u].sends)
        /\ ReceivedCircuit(th[t]).circuit_id \in DOMAIN open_proposals

----------------------------------------------------------------------------
(* C21: lifecycle operations leave proposal state untouched. No step of    *)
(* start, stop or destroy, whatever its result, and no step that changes   *)
(* the sender or the registry binding, changes the open-proposals map; and *)
(* a handle_message call for a CIRCUIT_CREATE_REQUEST whose circuit_id was *)
(* in the map when the call took the lock returns Ok having found it, with *)
(* the entry as it was.                                                    *)
C21_LifecycleKeepsProposals ==
    /\ [][(ctl' # ctl \/ network_sender' # network_sender \/ registry' # registry) =>
              open_proposals' = open_proposals]_vars
    /\ [][\A t \in Threads :
              (/\ Returns(t) /\ CreateCall(th'[t])
               /\ ReceivedCircuit(th'[t]).circuit_id \in DOMAIN th'[t].pre) =>
                  /\ th'[t].result = "Ok"
                  /\ th'[t].found /\ ~th'[t].inserted
                  /\ open_proposals'[ReceivedCircuit(th'[t]).circuit_id] =
                        th'[t].pre[ReceivedCircuit(th'[t]).circuit_id]]_vars

(* A proposal was registered, the service was then stopped (the last call  *)
(* of one thread found it NotStarted with the proposal in the map) and     *)
(* started again, and the other thread's handle_message for the same       *)
(* circuit_id with another circuit has now found the entry, which is kept. *)
C21_Witness ==
    \E t, u \in Threads :
        LET id == ReceivedCircuit(th[u]).circuit_id
        IN  /\ t # u
            /\ th[t].pc = "idle" /\ ~th[t].started /\ th[t].result = "NotStarted"
            /\ CreateCall(th[u]) /\ th[u].pc = "hm_ret" /\ th[u].found
            /\ id \in DOMAIN th[t].pre
            /\ th[t].pre[id] = open_proposals[id]
            /\ open_proposals[id].circuit_proposal # ReceivedCircuit(th[u])
            /\ network_sender = "Some"

----------------------------------------------------------------------------
(* to_hex on its own: two calls, each given a digest, each returning the   *)
(* string it built.                                                        *)

ToHexCall(k) ==
    /\ ~to_hex_calls[k].returned
    /\ to_hex_calls' = [to_hex_calls EXCEPT ![k] =
                           [@ EXCEPT !.buf = to_hex(to_hex_calls[k].bytes), !.returned = TRUE]]
    /\ UNCHANGED <<network_sender, destroyed, open_proposals, peers, sent, lock, poisoned, th,
                   ncalls, budget, registry, ctl, peer_node>>

InitHex ==
    /\ network_sender = "None"
    /\ destroyed = FALSE
    /\ open_proposals = EmptyMap
    /\ peers = {}
    /\ sent = <<>>
    /\ lock = NoThread
    /\ poisoned = FALSE
    /\ th = [t \in Threads |-> NewCall("none", FALSE)]
    /\ ncalls = 0
    /\ budget = 0
    /\ registry = {}
    /\ ctl = NoLifecycleCall
    /\ peer_node = NoPeerProposals
    /\ to_hex_calls \in {[k \in HexCallers |-> NewHexCall(input[k])] :
                            input \in [HexCallers -> ByteSeqs]}

NextHex == \E k \in HexCallers : ToHexCall(k)

SpecHex == InitHex /\ [][NextHex]_vars

(* C22: the circuit_hash string is a faithful rendering of the digest.     *)
(* The string to_hex returns has two characters for every byte it was      *)
(* given, and two calls given different byte sequences of the same length  *)
(* return different strings.                                               *)
C22_HexFaithful ==
    /\ \A k \in HexCallers :
          to_hex_calls[k].returned =>
              Len(to_hex_calls[k].buf) = 2 * Len(to_hex_calls[k].bytes)
    /\ \A j, k \in HexCallers :
          (/\ to_hex_calls[j].returned /\ to_hex_calls[k].returned
           /\ Len(to_hex_calls[j].bytes) = Len(to_hex_calls[k].bytes)
           /\ to_hex_calls[j].bytes # to_hex_calls[k].bytes) =>
              to_hex_calls[j].buf # to_hex_calls[k].buf

====
